---- MODULE Spec2Model ----
(***************************************************************************)
(* A model of strawberry.schema.schema.Schema: the construction of the    *)
(* type registry, the middleware chain and the extensions runner, and the *)
(* entry points get_type_by_name, execute, execute_sync, subscribe and    *)
(* as_str.  The collaborators that are imported by schema.py but are not  *)
(* part of it (get_object_type, get_directive_type, DirectivesMiddleware, *)
(* ExtensionsRunner, the execute wrapper, print_schema) are modelled from *)
(* their description in the specification.                                *)
(***************************************************************************)
EXTENDS Integers, Sequences, FiniteSets, TLC

\* ------------------------------------------------------------- bounds
MaxCalls == 3
MaxTypes == 1
MaxExtensions == 1

SeqsUpTo(S, n) == UNION {[1..k -> S] : k \in 0..n}

Range(s) == {s[k] : k \in 1..Len(s)}

\* Python's None, as a value of the record shape every result has.
None == [kind |-> "None"]

\* --------------------------------------------- host type declarations
\* The decorated host types a caller can hand to the constructor.  A_enum is
\* a second, distinct definition that claims the name "A".
\* The root types a caller passes: (query, mutation, subscription), NoType
\* where the optional root is left out.
NoType == "None"

RootChoices == { <<"Query", NoType, NoType>>, <<"Query", "Mutation", "Subscription">> }

AuxDecls == {"A_enum", "B"}

DeclName(d) == IF d = "A_enum" THEN "A" ELSE d

DeclKind(d) == IF d = "A_enum" THEN "enum" ELSE IF d = "B" THEN "scalar" ELSE "object"

\* The types of a declaration's fields, in field order.
DeclFields(d) ==
    IF d = "Query" THEN <<"A">>
    ELSE IF d = "Mutation" THEN <<"B">>
    ELSE <<>>

\* The names get_type_by_name is asked for: A is always registered (a field of
\* Query), B is registered with some constructor arguments and not with others.
TypeNames == {"A", "B"}

\* The name a directive declaration carries: my_skip is named like the
\* built-in skip directive, upper has a name of its own.
DirectiveName(d) == IF d = "my_skip" THEN "skip" ELSE d

\* The directive lists a caller passes: none, one with a fresh name, one named
\* like a built-in, and two of the same name.
DirectiveLists == { <<>>, <<"upper">>, <<"my_skip">>, <<"upper", "upper">> }

ExtensionClasses == {"tracing"}

\* ------------------------------------------------------- collaborators
\* graphql.type.directives.specified_directives, the fixed baseline set.
specified_directives ==
    << [kind |-> "GraphQLDirective", name |-> "include", origin |-> "builtin"],
       [kind |-> "GraphQLDirective", name |-> "skip", origin |-> "builtin"] >>

\* strawberry.schema.types.get_directive_type: the engine-native descriptor.
get_directive_type(directive) ==
    [kind |-> "GraphQLDirective", name |-> DirectiveName(directive), origin |-> directive]

\* The ConcreteType registered for a declaration.
ConcreteType(d) ==
    [definition |-> [name |-> DeclName(d), kind |-> DeclKind(d), origin |-> d],
     implementation |-> [kind |-> "GraphQLType", name |-> DeclName(d), origin |-> d]]

\* One registration: a name already present with the same definition is left
\* alone, with a different definition it is a DuplicateTypeNameError.
RegisterOne(d, reg) ==
    IF reg.exc # "none" THEN reg
    ELSE IF DeclName(d) \in DOMAIN reg.type_map
         THEN IF reg.type_map[DeclName(d)].definition.origin = d
              THEN reg
              ELSE [reg EXCEPT !.exc = "DuplicateTypeNameError"]
         ELSE [reg EXCEPT !.type_map =
                  [n \in DOMAIN reg.type_map \cup {DeclName(d)} |->
                      IF n = DeclName(d) THEN ConcreteType(d) ELSE reg.type_map[n]]]

RECURSIVE RegisterSeq(_, _)
\* strawberry.schema.types.get_object_type: registers the type and then every
\* type reachable through its fields into the supplied registry.
get_object_type(d, reg) == RegisterSeq(DeclFields(d), RegisterOne(d, reg))

RegisterSeq(ds, reg) ==
    IF ds = <<>> \/ reg.exc # "none" THEN reg
    ELSE RegisterSeq(Tail(ds), get_object_type(Head(ds), reg))

\* strawberry.middleware.DirectivesMiddleware(directives)
DirectivesMiddleware(directives) ==
    [kind |-> "DirectivesMiddleware", directives |-> directives]

\* strawberry.extensions.ExtensionsRunner(extensions): one long-lived object
\* holding what each extension collected.
NoData == [on_start |-> 0, on_end |-> 0]

ExtensionsRunner(extensions) ==
    [kind |-> "ExtensionsRunner", extensions |-> extensions, state |-> "idle",
     results |-> [e \in Range(extensions) |-> NoData]]

\* The request-start hooks: every extension starts afresh for request r.
RunnerRequestStart(runner, r) ==
    [runner EXCEPT !.state = "running",
                   !.results = [e \in DOMAIN runner.results |->
                                   [on_start |-> r, on_end |-> 0]]]

\* The request-end hooks of request r.
RunnerRequestEnd(runner, r) ==
    [runner EXCEPT !.state = "completed",
                   !.results = [e \in DOMAIN runner.results |->
                                   [runner.results[e] EXCEPT !.on_end = r]]]

\* ExtensionsRunner.get_extensions_results(): a pure read of the runner.
get_extensions_results(runner) == runner.results

\* ------------------------------------------------------------ requests
Queries == {"q_partial", "q_async"}

SubscriptionQueries == {"q_sub"}

\* Whether the resolver graph of the query needs asynchronous completion.
NeedsAwait(q) == q = "q_async"

\* The engine's completed result for a query.
EngineResult(q) ==
    IF q = "q_partial"
    THEN [kind |-> "completed", data |-> "data_partial", errors |-> <<"resolver_error">>]
    ELSE [kind |-> "completed", data |-> "data_async", errors |-> <<>>]

\* graphql.parse(query)
parse(q) == [kind |-> "Document", source |-> q]

\* graphql.subscribe(schema, document, ...): a lazy sequence of payloads, one
\* per event, each shaped like an engine result (data and errors only).
EngineSubscribe(schema, document) ==
    [kind |-> "event_stream", source |-> document.source]

\* The engine's execute primitive as wrapped by strawberry.schema.execute: the
\* request-start hooks run, then the engine either completes (and the
\* request-end hooks run) or hands back an awaitable.
execute(q, runner, r) ==
    IF NeedsAwait(q)
    THEN [result |-> [kind |-> "pending"], runner |-> RunnerRequestStart(runner, r)]
    ELSE [result |-> EngineResult(q),
          runner |-> RunnerRequestEnd(RunnerRequestStart(runner, r), r)]

\* The awaitable of request r resolving: the engine finishes the request and
\* the request-end hooks run.
AwaitResult(q, runner, r) ==
    [result |-> EngineResult(q), runner |-> RunnerRequestEnd(runner, r)]

\* graphql.GraphQLSchema(...): the opaque engine-native schema handle.
GraphQLSchema(query, mutation, subscription, directives, types) ==
    [kind |-> "GraphQLSchema", query |-> query, mutation |-> mutation,
     subscription |-> subscription, directives |-> directives, types |-> types]

\* strawberry.printer.print_schema(schema)
print_schema(tm) == [kind |-> "SDL", types |-> DOMAIN tm]

\* ---------------------------------------------------------------- state
VARIABLES
    phase,              \* "new", then "constructed" or "failed"
    ctor_args,          \* the arguments Schema(...) was called with
    ctor_exc,           \* the exception Schema(...) raised, "none" if none
    schema_ref,         \* TRUE when the caller holds a Schema object
    type_map,           \* self.type_map
    middleware,         \* self.middleware
    _schema,            \* self._schema
    query,              \* self.query
    extensions_runner,  \* self.extensions_runner
    calls               \* the calls made on the Schema, by call number

vars == <<phase, ctor_args, ctor_exc, schema_ref, type_map, middleware, _schema,
          query, extensions_runner, calls>>

Unset == [kind |-> "unset"]

EmptyMap == [n \in {} |-> None]

NoCall ==
    [op |-> "none", pc |-> "idle", arg |-> "", engine_args |-> Unset,
     engine |-> Unset, ret |-> None, exc |-> "none"]

CallIds == 1..MaxCalls

Init ==
    /\ phase = "new"
    /\ ctor_args = Unset
    /\ ctor_exc = "none"
    /\ schema_ref = FALSE
    /\ type_map = EmptyMap
    /\ middleware = <<>>
    /\ _schema = Unset
    /\ query = Unset
    /\ extensions_runner = Unset
    /\ calls = [i \in CallIds |-> NoCall]

\* ---------------------------------------------------------- construction
\* A chain whose directives middleware is built without the declarations.
InitialMiddlewareNoDirectives(directives) == <<DirectivesMiddleware(<<>>)>>

\* The middleware a caller supplies at construction: __init__ (lines 20-29)
\* has no parameter for any, so there is none.
CallerMiddleware == <<>>

\* Line 39: the chain starts as the directives middleware alone; __init__ has
\* no parameter through which a caller could supply further middleware.
InitialMiddleware(directives) == <<DirectivesMiddleware(directives)>>

\* The auxiliary types registered into a fresh registry instead of
\* self.type_map, so a clash with an already registered name goes unseen.
RegisterTypesFreshMap(types, reg) ==
    [reg EXCEPT !.exc = RegisterSeq(types, [exc |-> "none", type_map |-> EmptyMap]).exc]

\* Line 50: the auxiliary types are registered, in order, into self.type_map.
RegisterTypes(types, reg) == RegisterSeq(types, reg)

\* Schema.__init__, statement by statement.  An exception leaves the fields
\* assigned so far on the object, which the caller never receives.
Construct(q, m, s, directives, types, extensions) ==
    LET r0 == [exc |-> "none", type_map |-> EmptyMap]
        r1 == get_object_type(q, r0)
        r2 == IF m # NoType THEN get_object_type(m, r1) ELSE r1
        r3 == IF s # NoType THEN get_object_type(s, r2) ELSE r2
        mw == InitialMiddleware(directives)
        dirs == [k \in 1..Len(directives) |-> get_directive_type(directives[k])]
        r4 == RegisterTypes(types, r3)
        impl(d) == IF d = NoType THEN None ELSE r4.type_map[DeclName(d)].implementation
        gql == GraphQLSchema(impl(q), impl(m), impl(s), specified_directives \o dirs,
                             [k \in 1..Len(types) |-> impl(types[k])])
    IN  IF r3.exc # "none"
        THEN [exc |-> r3.exc, type_map |-> r3.type_map, middleware |-> <<>>,
              schema |-> Unset, query |-> Unset, runner |-> Unset]
        ELSE IF r4.exc # "none"
        THEN [exc |-> r4.exc, type_map |-> r4.type_map, middleware |-> mw,
              schema |-> Unset, query |-> Unset, runner |-> Unset]
        ELSE [exc |-> "none", type_map |-> r4.type_map, middleware |-> mw,
              schema |-> gql, query |-> r4.type_map[impl(q).name],
              runner |-> ExtensionsRunner(extensions)]

SchemaInit(q, m, s, directives, types, extensions) ==
    /\ phase = "new"
    /\ LET self == Construct(q, m, s, directives, types, extensions)
       IN  /\ phase' = IF self.exc = "none" THEN "constructed" ELSE "failed"
           /\ ctor_exc' = self.exc
           /\ schema_ref' = (self.exc = "none")
           /\ type_map' = self.type_map
           /\ middleware' = self.middleware
           /\ _schema' = self.schema
           /\ query' = self.query
           /\ extensions_runner' = self.runner
    /\ ctor_args' = [query |-> q, mutation |-> m, subscription |-> s,
                     directives |-> directives, types |-> types,
                     extensions |-> extensions]
    /\ UNCHANGED calls

\* ---------------------------------------------------------------- calls
\* Calls are numbered in the order they start; call i is request i.
CanStart(i) ==
    /\ schema_ref
    /\ calls[i].op = "none"
    /\ IF i = 1 THEN TRUE ELSE calls[i - 1].op # "none"

Frame == UNCHANGED <<phase, ctor_args, ctor_exc, schema_ref, type_map, middleware,
                     _schema, query>>

\* What execute and execute_sync hand to the execute primitive (lines 72-81
\* and 100-109).
ExecuteArgs(q) ==
    [kind |-> "execute", schema |-> _schema, query |-> q,
     additional_middlewares |-> middleware, extensions_runner |-> TRUE]

\* Lines 86-90: the ExecutionResult execute returns.
ExecuteReturn(result, runner) ==
    [kind |-> "ExecutionResult", data |-> result.data, errors |-> result.errors,
     extensions |-> get_extensions_results(runner)]

\* execute_sync's result with the engine's errors dropped.
ExecuteSyncReturnNoErrors(result, runner) ==
    [kind |-> "ExecutionResult", data |-> result.data, errors |-> <<>>,
     extensions |-> get_extensions_results(runner)]

\* Lines 111-115: the ExecutionResult execute_sync returns.
ExecuteSyncReturn(result, runner) ==
    [kind |-> "ExecutionResult", data |-> result.data, errors |-> result.errors,
     extensions |-> get_extensions_results(runner)]

\* get_type_by_name returning the registry entry instead of its definition.
get_type_by_name_entry(tm, name) ==
    IF name \in DOMAIN tm THEN tm[name] ELSE None

\* Schema.get_type_by_name (lines 56-62).
get_type_by_name(tm, name) ==
    IF name \in DOMAIN tm THEN tm[name].definition ELSE None

\* get_type_by_name filling the registry with an entry for a missing name.
GetTypeByNameCaching(i, name) ==
    /\ CanStart(i)
    /\ calls' = [calls EXCEPT ![i] =
           [NoCall EXCEPT !.op = "get_type_by_name", !.pc = "done", !.arg = name,
                          !.ret = get_type_by_name(type_map, name)]]
    /\ type_map' = IF name \in DOMAIN type_map THEN type_map
                   ELSE [n \in DOMAIN type_map \cup {name} |->
                            IF n = name THEN [definition |-> None, implementation |-> None]
                            ELSE type_map[n]]
    /\ UNCHANGED <<phase, ctor_args, ctor_exc, schema_ref, middleware, _schema, query,
                   extensions_runner>>

GetTypeByName(i, name) ==
    /\ CanStart(i)
    /\ calls' = [calls EXCEPT ![i] =
           [NoCall EXCEPT !.op = "get_type_by_name", !.pc = "done", !.arg = name,
                          !.ret = get_type_by_name(type_map, name)]]
    /\ UNCHANGED extensions_runner
    /\ Frame

\* Schema.execute up to its first suspension (lines 72-84): with a completed
\* engine result it runs to its return without suspending.
ExecuteCall(i, q) ==
    /\ CanStart(i)
    /\ LET e == execute(q, extensions_runner, i)
       IN  /\ extensions_runner' = e.runner
           /\ calls' = [calls EXCEPT ![i] =
                  IF e.result.kind = "pending"
                  THEN [NoCall EXCEPT !.op = "execute", !.pc = "awaiting", !.arg = q,
                                      !.engine_args = ExecuteArgs(q),
                                      !.engine = e.result]
                  ELSE [NoCall EXCEPT !.op = "execute", !.pc = "done", !.arg = q,
                                      !.engine_args = ExecuteArgs(q),
                                      !.engine = e.result,
                                      !.ret = ExecuteReturn(e.result, e.runner)]]
    /\ Frame

\* Schema.execute resumed by its awaitable (lines 84-90): the await returns the
\* result and the method runs to its return.
ExecuteResume(i) ==
    /\ calls[i].op = "execute"
    /\ calls[i].pc = "awaiting"
    /\ LET a == AwaitResult(calls[i].arg, extensions_runner, i)
       IN  /\ extensions_runner' = a.runner
           /\ calls' = [calls EXCEPT ![i].pc = "done",
                                     ![i].ret = ExecuteReturn(a.result, a.runner)]
    /\ Frame

\* execute_sync reading the extension results before it calls the engine.
ExecuteSyncCallStaleExtensions(i, q) ==
    /\ CanStart(i)
    /\ LET e == execute(q, extensions_runner, i)
       IN  /\ extensions_runner' = e.runner
           /\ calls' = [calls EXCEPT ![i] =
                  IF e.result.kind = "pending"
                  THEN [NoCall EXCEPT !.op = "execute_sync", !.pc = "raised", !.arg = q,
                                      !.engine_args = ExecuteArgs(q),
                                      !.engine = e.result,
                                      !.exc = "AttributeError"]
                  ELSE [NoCall EXCEPT !.op = "execute_sync", !.pc = "done", !.arg = q,
                                      !.engine_args = ExecuteArgs(q),
                                      !.engine = e.result,
                                      !.ret = ExecuteSyncReturn(e.result, extensions_runner)]]
    /\ Frame

\* Schema.execute_sync (lines 100-115).  A pending engine result is not
\* awaited: reading its data attribute (line 112) raises AttributeError.
ExecuteSyncCall(i, q) ==
    /\ CanStart(i)
    /\ LET e == execute(q, extensions_runner, i)
       IN  /\ extensions_runner' = e.runner
           /\ calls' = [calls EXCEPT ![i] =
                  IF e.result.kind = "pending"
                  THEN [NoCall EXCEPT !.op = "execute_sync", !.pc = "raised", !.arg = q,
                                      !.engine_args = ExecuteArgs(q),
                                      !.engine = e.result,
                                      !.exc = "AttributeError"]
                  ELSE [NoCall EXCEPT !.op = "execute_sync", !.pc = "done", !.arg = q,
                                      !.engine_args = ExecuteArgs(q),
                                      !.engine = e.result,
                                      !.ret = ExecuteSyncReturn(e.result, e.runner)]]
    /\ Frame

\* subscribe routed through the middleware chain and the extensions runner.
SubscribeCallThroughRunner(i, q) ==
    /\ CanStart(i)
    /\ calls' = [calls EXCEPT ![i] =
           [NoCall EXCEPT !.op = "subscribe", !.pc = "awaiting", !.arg = q,
                          !.engine_args = [kind |-> "subscribe", schema |-> _schema,
                                           document |-> parse(q),
                                           additional_middlewares |-> middleware,
                                           extensions_runner |-> TRUE]]]
    /\ extensions_runner' = RunnerRequestStart(extensions_runner, i)
    /\ Frame

\* Schema.subscribe up to its await (lines 125-132).
SubscribeCall(i, q) ==
    /\ CanStart(i)
    /\ calls' = [calls EXCEPT ![i] =
           [NoCall EXCEPT !.op = "subscribe", !.pc = "awaiting", !.arg = q,
                          !.engine_args = [kind |-> "subscribe", schema |-> _schema,
                                           document |-> parse(q)]]]
    /\ UNCHANGED extensions_runner
    /\ Frame

\* Schema.subscribe resumed: it returns what the subscription primitive gave.
SubscribeResume(i) ==
    /\ calls[i].op = "subscribe"
    /\ calls[i].pc = "awaiting"
    /\ calls' = [calls EXCEPT ![i].pc = "done",
                              ![i].engine = [kind |-> "completed_subscription"],
                              ![i].ret = EngineSubscribe(calls[i].engine_args.schema,
                                                         calls[i].engine_args.document)]
    /\ UNCHANGED extensions_runner
    /\ Frame

\* Schema.as_str (lines 134-135).
AsStr(i) ==
    /\ CanStart(i)
    /\ calls' = [calls EXCEPT ![i] =
           [NoCall EXCEPT !.op = "as_str", !.pc = "done",
                          !.ret = print_schema(type_map)]]
    /\ UNCHANGED extensions_runner
    /\ Frame

\* ------------------------------------------------------- specifications
ConstructStep ==
    \E roots \in RootChoices,
       directives \in DirectiveLists,
       types \in SeqsUpTo(AuxDecls, MaxTypes),
       extensions \in SeqsUpTo(ExtensionClasses, MaxExtensions) :
        SchemaInit(roots[1], roots[2], roots[3], directives, types, extensions)

StartStep ==
    \E i \in CallIds :
        \/ \E name \in TypeNames : GetTypeByName(i, name)
        \/ \E q \in Queries : ExecuteCall(i, q)
        \/ \E q \in Queries : ExecuteSyncCall(i, q)
        \/ \E q \in SubscriptionQueries : SubscribeCall(i, q)
        \/ AsStr(i)

ResumeStep ==
    \E i \in CallIds :
        \/ ExecuteResume(i)
        \/ SubscribeResume(i)

Next == ConstructStep \/ StartStep \/ ResumeStep

Spec == Init /\ [][Next]_vars

\* Requests run one after another: a call starts only when none is suspended.
NoneInFlight == \A i \in CallIds : calls[i].pc # "awaiting"

NextSeq == ConstructStep \/ (NoneInFlight /\ StartStep) \/ ResumeStep

SpecSeq == Init /\ [][NextSeq]_vars

\* --------------------------------------------------------------- claims
IsRequest(c) == c.op \in {"execute", "execute_sync"}

\* The declarations reachable from the constructor's root and auxiliary types.
DeclClosure(d) ==
    {d} \cup Range(DeclFields(d)) \cup UNION {Range(DeclFields(f)) : f \in Range(DeclFields(d))}

ReachDecls(args) ==
    UNION {DeclClosure(d) : d \in ({args.query, args.mutation, args.subscription}
                                    \cup Range(args.types)) \ {NoType}}

\* Two distinct type definitions among them claim the same name.
HasCollision(args) ==
    \E d1, d2 \in ReachDecls(args) : d1 # d2 /\ DeclName(d1) = DeclName(d2)

RegisteredNames(args) == {DeclName(d) : d \in ReachDecls(args)}

\* C1: whenever the engine's execute primitive hands execute_sync a pending
\* (awaitable) value, execute_sync raises SynchronousExecutionError and
\* returns no ExecutionResult.
C1_ExecuteSyncPendingRaisesUsageError ==
    \A i \in CallIds :
        (calls[i].op = "execute_sync" /\ calls[i].engine.kind = "pending")
            => /\ calls[i].pc = "raised"
               /\ calls[i].exc = "SynchronousExecutionError"
               /\ calls[i].ret = None

C3_OverlappingExecuteOwnExtensions ==
    \A i \in CallIds :
        (calls[i].op = "execute" /\ calls[i].pc = "done")
            => \A e \in DOMAIN calls[i].ret.extensions :
                   /\ calls[i].ret.extensions[e].on_start = i
                   /\ calls[i].ret.extensions[e].on_end = i

\* C4: the middleware chain is the directives middleware built from the
\* constructor's directive declarations, followed by the caller-supplied
\* middleware in order, and execute and execute_sync hand exactly this list
\* to the engine.
C4_MiddlewareChain ==
    schema_ref =>
        /\ middleware = <<DirectivesMiddleware(ctor_args.directives)>> \o CallerMiddleware
        /\ \A i \in CallIds :
               IsRequest(calls[i]) =>
                   calls[i].engine_args.additional_middlewares = middleware

\* A Schema built with directive declarations has served execute and
\* execute_sync.
C4_Witness ==
    /\ schema_ref
    /\ ctor_args.directives # <<>>
    /\ \E i, j \in CallIds : calls[i].op = "execute" /\ calls[j].op = "execute_sync"

\* C5: once construction has completed, no step changes the type registry, the
\* middleware list or the engine-native schema.
C5_ImmutableAfterConstruction ==
    [][schema_ref => /\ type_map' = type_map
                     /\ middleware' = middleware
                     /\ _schema' = _schema]_vars

\* One request raised, one returned errors, and a lookup missed.
C5_Witness ==
    /\ schema_ref
    /\ \E i, j, k \in CallIds :
           /\ calls[i].exc # "none"
           /\ calls[j].op = "execute" /\ calls[j].pc = "done"
           /\ calls[j].ret.errors # <<>>
           /\ calls[k].op = "get_type_by_name" /\ calls[k].ret = None

\* C6: no constructed Schema holds a directive list with a repeated name.
C6_NoRepeatedDirectiveName ==
    schema_ref =>
        \A a, b \in 1..Len(_schema.directives) :
            a # b => _schema.directives[a].name # _schema.directives[b].name

C8_GetTypeByNameMatches ==
    \A i \in CallIds :
        (calls[i].op = "get_type_by_name" /\ calls[i].pc = "done")
            => IF calls[i].arg \in RegisteredNames(ctor_args)
               THEN /\ calls[i].arg \in DOMAIN type_map
                    /\ calls[i].ret = type_map[calls[i].arg].definition
                    /\ calls[i].ret.name = calls[i].arg
               ELSE calls[i].ret = None

\* One lookup found a registered name and one missed an unregistered name.
C8_Witness ==
    \E i, j \in CallIds :
        /\ calls[i].op = "get_type_by_name" /\ calls[i].ret # None
        /\ calls[j].op = "get_type_by_name" /\ calls[j].pc = "done"
        /\ calls[j].ret = None

\* C9: for the same request on which the engine returned a completed result,
\* execute and execute_sync return the same data and the same errors, those
\* of the engine's result.
C9_ExecuteAndSyncAgree ==
    \A i, j \in CallIds :
        (/\ calls[i].op = "execute" /\ calls[i].pc = "done"
         /\ calls[j].op = "execute_sync" /\ calls[j].pc = "done"
         /\ calls[i].arg = calls[j].arg
         /\ calls[i].engine.kind = "completed"
         /\ calls[j].engine.kind = "completed")
            => /\ calls[i].ret.data = calls[j].ret.data
               /\ calls[i].ret.errors = calls[j].ret.errors
               /\ calls[i].ret.data = EngineResult(calls[i].arg).data
               /\ calls[i].ret.errors = EngineResult(calls[i].arg).errors

\* Both entry points served the same request, whose result carries errors.
C9_Witness ==
    \E i, j \in CallIds :
        /\ calls[i].op = "execute" /\ calls[i].pc = "done"
        /\ calls[j].op = "execute_sync" /\ calls[j].pc = "done"
        /\ calls[i].arg = calls[j].arg
        /\ calls[i].engine.kind = "completed"
        /\ calls[j].ret.errors # <<>>

\* C10: every step of a subscribe call leaves the extensions runner as it was
\* and hands the subscription primitive the engine schema and the parsed
\* query only; the value subscribe returns carries no extensions.
C10_SubscribeBypassesRunner ==
    [][\A i \in CallIds :
           (calls'[i] # calls[i] /\ calls'[i].op = "subscribe")
               => /\ extensions_runner' = extensions_runner
                  /\ calls'[i].engine_args =
                         [kind |-> "subscribe", schema |-> _schema,
                          document |-> parse(calls'[i].arg)]
                  /\ calls'[i].pc = "done"
                         => /\ calls'[i].ret.kind = "event_stream"
                            /\ "extensions" \notin DOMAIN calls'[i].ret]_vars

\* A subscribe call ran between two requests, and the later one returned its
\* own extension results.
C10_Witness ==
    /\ MaxCalls >= 3
    /\ IsRequest(calls[1]) /\ calls[1].pc = "done"
    /\ calls[2].op = "subscribe" /\ calls[2].pc = "done"
    /\ IsRequest(calls[3]) /\ calls[3].pc = "done"
    /\ DOMAIN calls[3].ret.extensions # {}
    /\ \A e \in DOMAIN calls[3].ret.extensions :
           calls[3].ret.extensions[e] = [on_start |-> 3, on_end |-> 3]

====
